---- MODULE Spec2Model ----
(***************************************************************************)
(* Transit graph (Graph, dijkstra: lib/graph) and the ranking of the       *)
(* search screen (App.tsx: handleSearch, calculateResults).                *)
(*                                                                         *)
(* A Station is modelled by its id and rent: name and safetyScore are      *)
(* carried along by the code and read by nothing modelled here.            *)
(* A JavaScript Map is a sequence of entries in insertion order            *)
(* (Graph.nodes) or a function on its key set (Graph.edges, distances).    *)
(***************************************************************************)
EXTENDS Integers, Sequences, FiniteSets, TLC

VARIABLES nodes, edges, lastOp, ret, params, step, timers, results, alertMsg, runs

vars == <<nodes, edges, lastOp, ret, params, step, timers, results, alertMsg, runs>>
graphVars == <<nodes, edges>>
apiVars == <<lastOp, ret>>
appVars == <<params, step, timers, results, alertMsg, runs>>

(***************************************************************************)
(* Bounds of the model.                                                    *)
(***************************************************************************)
MaxEntries == 3
MaxEdges == 3
LongLen == 11
TopN == 10

StationIds == {"X", "Y", "Z"}
Rents == {100000, 200000}
Weights == {3, 4}
PathWeights == {1, 3, 4}

(***************************************************************************)
(* Infinity of the distance maps: larger than every finite path length.    *)
(***************************************************************************)
Infinity == 100000

NoStation == [id |-> "", rent |-> 0]
NoMap == [x \in {} |-> 0]

(***************************************************************************)
(* class Graph                                                             *)
(***************************************************************************)
EmptyGraph == [nodes |-> <<>>, edges |-> NoMap]

NodeIds(g) == {g.nodes[i].id : i \in 1..Len(g.nodes)}

has(g, id) == \E i \in 1..Len(g.nodes) : g.nodes[i].id = id

getStation(g, id) == g.nodes[CHOOSE i \in 1..Len(g.nodes) : g.nodes[i].id = id]

getAllStations(g) == g.nodes

IndexOf(g, id) == CHOOSE i \in 1..Len(g.nodes) : g.nodes[i].id = id

addNodeOverwrite(g, station) ==
    IF has(g, station.id)
    THEN [nodes |-> [g.nodes EXCEPT ![IndexOf(g, station.id)] = station],
          edges |-> [g.edges EXCEPT ![station.id] = <<>>]]
    ELSE [nodes |-> Append(g.nodes, station),
          edges |-> (station.id :> <<>>) @@ g.edges]

addNode(g, station) ==
    IF ~has(g, station.id)
    THEN [nodes |-> Append(g.nodes, station),
          edges |-> (station.id :> <<>>) @@ g.edges]
    ELSE g

push(es, key, entry) ==
    IF key \in DOMAIN es THEN [es EXCEPT ![key] = Append(@, entry)] ELSE es

addEdge(g, from, to, weight) ==
    LET e1 == push(g.edges, from, [to |-> to, weight |-> weight])
        e2 == push(e1, to, [to |-> from, weight |-> weight])
    IN  [nodes |-> g.nodes, edges |-> e2]

(***************************************************************************)
(* dijkstra: the state of the loop is the distances map and the unvisited  *)
(* set; the set is iterated in insertion order, which is the order of      *)
(* graph.nodes, and the strict comparison keeps the first minimum.         *)
(***************************************************************************)
dijkstraInit(g, startId) ==
    [distances |-> (startId :> 0) @@ [id \in NodeIds(g) |-> Infinity],
     unvisited |-> NodeIds(g)]

HasCurrent(g, st) == \E id \in st.unvisited : st.distances[id] < Infinity

selectFirstFinite(g, st) ==
    CHOOSE id \in st.unvisited :
        /\ st.distances[id] < Infinity
        /\ \A o \in st.unvisited :
              st.distances[o] < Infinity => IndexOf(g, id) <= IndexOf(g, o)

selectCurrent(g, st) ==
    CHOOSE id \in st.unvisited :
        /\ st.distances[id] < Infinity
        /\ \A o \in st.unvisited :
              \/ st.distances[id] < st.distances[o]
              \/ st.distances[id] = st.distances[o] /\ IndexOf(g, id) <= IndexOf(g, o)

RECURSIVE relax(_, _, _, _, _)
relax(es, i, unvisited, minDistance, distances) ==
    IF i > Len(es) THEN distances
    ELSE LET edge == es[i]
             newDist == minDistance + edge.weight
             d2 == IF edge.to \in unvisited /\ newDist < distances[edge.to]
                   THEN [distances EXCEPT ![edge.to] = newDist]
                   ELSE distances
         IN  relax(es, i + 1, unvisited, minDistance, d2)

dijkstraDone(g, st) == st.unvisited = {} \/ ~HasCurrent(g, st)

\* A round that relaxes and leaves currentId in the unvisited set.
visitKeep(g, st, currentId) ==
    [distances |-> relax(g.edges[currentId], 1, st.unvisited,
                         st.distances[currentId], st.distances),
     unvisited |-> st.unvisited]

\* The rest of a round, once currentId is selected: delete, then relax.
visit(g, st, currentId) ==
    LET minDistance == st.distances[currentId]
        unvisited == st.unvisited \ {currentId}
    IN  [distances |-> relax(g.edges[currentId], 1, unvisited, minDistance, st.distances),
         unvisited |-> unvisited]

dijkstraStep(g, st) == visit(g, st, selectCurrent(g, st))

RECURSIVE dijkstraLoop(_, _)
dijkstraLoop(g, st) ==
    IF dijkstraDone(g, st) THEN st ELSE dijkstraLoop(g, dijkstraStep(g, st))

dijkstra(g, startId) == dijkstraLoop(g, dijkstraInit(g, startId)).distances

(***************************************************************************)
(* Reference notions the claims are stated with.                           *)
(***************************************************************************)
Min(S) == CHOOSE x \in S : \A y \in S : x <= y

Occurrences(es, key, entry) ==
    IF key \in DOMAIN es
    THEN Cardinality({i \in 1..Len(es[key]) : es[key][i] = entry})
    ELSE 0

TotalEntries(es) ==
    LET RECURSIVE Sum(_)
        Sum(K) == IF K = {} THEN 0
                  ELSE LET k == CHOOSE k \in K : TRUE IN Len(es[k]) + Sum(K \ {k})
    IN  Sum(DOMAIN es)

\* Every stored entry (u -> v, w) has its reverse (v -> u, w), as many times.
Symmetric(g) ==
    \A u \in DOMAIN g.edges : \A i \in 1..Len(g.edges[u]) :
        LET e == g.edges[u][i] IN
        /\ e.to \in DOMAIN g.edges
        /\ Occurrences(g.edges, e.to, [to |-> u, weight |-> e.weight])
             = Occurrences(g.edges, u, e)

\* Minimum total weight of the paths from s along stored entries: the limit of
\* d[v] = min(d[v], d[u] + w) over the entries (u -> v, w), from d[s] = 0.
RECURSIVE Settle(_, _)
Settle(g, d) ==
    LET d2 == [v \in NodeIds(g) |->
                 Min({d[v]} \cup
                     UNION {{d[u] + g.edges[u][i].weight :
                               i \in {j \in 1..Len(g.edges[u]) : g.edges[u][j].to = v}} :
                            u \in {x \in NodeIds(g) : d[x] < Infinity}})]
    IN  IF d2 = d THEN d ELSE Settle(g, d2)

TrueDist(g, s) == Settle(g, [v \in NodeIds(g) |-> IF v = s THEN 0 ELSE Infinity])

\* The stations joined to s by a chain of stored entries.
RECURSIVE Closure(_, _)
Closure(g, S) ==
    LET T == S \cup {v \in NodeIds(g) :
                       \E u \in S : \E i \in 1..Len(g.edges[u]) : g.edges[u][i].to = v}
    IN  IF T = S THEN S ELSE Closure(g, T)

Component(g, s) == Closure(g, {s})

(***************************************************************************)
(* The graph held by the state.                                            *)
(***************************************************************************)
graph == [nodes |-> nodes, edges |-> edges]

\* The two dijkstra calls of calculateResults, neither of them entered.
NoRun == [pc |-> "idle", startId |-> "", distances |-> NoMap, unvisited |-> {}]
NoRuns == [r \in {"A", "B"} |-> NoRun]

InitParams == [workplaceA |-> "", workplaceB |-> "", budget |-> 150000,
               ratio |-> 50, lambda20 |-> 10]

InitApp ==
    /\ params = InitParams
    /\ step = "INPUT"
    /\ timers = 0
    /\ results = <<>>
    /\ alertMsg = "none"
    /\ runs = NoRuns

NoOp == [op |-> "none", station |-> NoStation, from |-> "", to |-> "", weight |-> 0,
         startId |-> ""]

Init ==
    /\ nodes = <<>>
    /\ edges = NoMap
    /\ lastOp = NoOp
    /\ ret = [kind |-> "none", map |-> NoMap]
    /\ InitApp

(***************************************************************************)
(* Calls of the library's exported operations, by any caller.  lastOp is   *)
(* the call just made and ret what it returned; nothing in the library     *)
(* throws.  The adjacency lists hold at most MaxEntries entries in all.    *)
(***************************************************************************)
CallAddNode(station) ==
    /\ nodes' = addNode(graph, station).nodes
    /\ edges' = addNode(graph, station).edges
    /\ lastOp' = [NoOp EXCEPT !.op = "addNode", !.station = station]
    /\ ret' = [kind |-> "undefined", map |-> NoMap]
    /\ UNCHANGED appVars

CallAddEdge(from, to, weight) ==
    /\ TotalEntries(edges) + 2 <= MaxEntries
    /\ nodes' = addEdge(graph, from, to, weight).nodes
    /\ edges' = addEdge(graph, from, to, weight).edges
    /\ lastOp' = [NoOp EXCEPT !.op = "addEdge", !.from = from, !.to = to,
                              !.weight = weight]
    /\ ret' = [kind |-> "undefined", map |-> NoMap]
    /\ UNCHANGED appVars

CallDijkstra(startId) ==
    /\ lastOp' = [NoOp EXCEPT !.op = "dijkstra", !.startId = startId]
    /\ ret' = [kind |-> "map", map |-> dijkstra(graph, startId)]
    /\ UNCHANGED <<graphVars, appVars>>

Next ==
    \/ \E id \in StationIds, rent \in Rents : CallAddNode([id |-> id, rent |-> rent])
    \/ \E from \in StationIds, to \in StationIds, weight \in Weights :
          CallAddEdge(from, to, weight)
    \/ \E startId \in StationIds : CallDijkstra(startId)

Spec == Init /\ [][Next]_vars

(***************************************************************************)
(* dijkstra as a function of the graph: the graphs are those a caller      *)
(* builds by adding stations in some order and then up to MaxEdges edges   *)
(* between them.                                                           *)
(***************************************************************************)
SeqsUpTo(S, n) == UNION {[1..k -> S] : k \in 0..n}

RECURSIVE withNodes(_, _, _)
withNodes(g, stations, i) ==
    IF i > Len(stations) THEN g
    ELSE withNodes(addNode(g, stations[i]), stations, i + 1)

RECURSIVE withEdges(_, _, _)
withEdges(g, es, i) ==
    IF i > Len(es) THEN g
    ELSE withEdges(addEdge(g, es[i][1], es[i][2], es[i][3]), es, i + 1)

NodeOrders ==
    {o \in SeqsUpTo(StationIds, Cardinality(StationIds)) :
        \A i, j \in 1..Len(o) : i # j => o[i] # o[j]}

PathEdges == {<<"X", "Y">>, <<"Y", "Z">>, <<"X", "Z">>} \X PathWeights

InitPath ==
    /\ \E o \in NodeOrders, es \in SeqsUpTo(PathEdges, MaxEdges) :
          LET g == withEdges(withNodes(EmptyGraph,
                                       [i \in 1..Len(o) |-> [id |-> o[i], rent |-> 100000]],
                                       1),
                             [i \in 1..Len(es) |-> <<es[i][1][1], es[i][1][2], es[i][2]>>],
                             1)
          IN  nodes = g.nodes /\ edges = g.edges
    /\ lastOp = NoOp
    /\ ret = [kind |-> "none", map |-> NoMap]
    /\ InitApp

NextPath == \E startId \in StationIds : CallDijkstra(startId)

SpecPath == InitPath /\ [][NextPath]_vars

LineXYZ ==
    /\ NodeIds(graph) = {"X", "Y", "Z"}
    /\ edges["X"] = <<[to |-> "Y", weight |-> 3]>>
    /\ edges["Z"] = <<[to |-> "Y", weight |-> 4]>>
    /\ \/ edges["Y"] = <<[to |-> "X", weight |-> 3], [to |-> "Z", weight |-> 4]>>
       \/ edges["Y"] = <<[to |-> "Z", weight |-> 4], [to |-> "X", weight |-> 3]>>

(***************************************************************************)
(* C1: addEdge(a, b, weight) with a or b not a station of the graph fails  *)
(* with an UnknownStation error and appends no adjacency entry.            *)
(***************************************************************************)
C1_AddEdgeUnknownFails ==
    [][(lastOp'.op = "addEdge"
         /\ (~has(graph, lastOp'.from) \/ ~has(graph, lastOp'.to)))
       => (ret'.kind = "error" /\ edges' = edges)]_vars

(***************************************************************************)
(* C2: after any sequence of addNode and addEdge calls the adjacency lists *)
(* are symmetric: every stored entry (u -> v, w) has a station v holding   *)
(* (v -> u, w) with the same multiplicity.                                 *)
(***************************************************************************)
C2_AdjacencySymmetric == Symmetric(graph)

(***************************************************************************)
(* C3: addNode(s) is a no-op when s.id is present (station record,         *)
(* adjacency list and listing order unchanged) and otherwise appends s to  *)
(* the listing order with an empty adjacency list.                         *)
(***************************************************************************)
C3_AddNodeIdempotent ==
    [][lastOp'.op = "addNode" =>
         LET s == lastOp'.station IN
         IF has(graph, s.id)
         THEN /\ nodes' = nodes
              /\ edges' = edges
         ELSE /\ nodes' = Append(nodes, s)
              /\ DOMAIN edges' = DOMAIN edges \cup {s.id}
              /\ edges'[s.id] = <<>>
              /\ \A k \in DOMAIN edges : edges'[k] = edges[k]]_vars

C3_Witness ==
    /\ lastOp.op = "addNode"
    /\ \E i \in 1..Len(nodes) :
          /\ nodes[i].id = lastOp.station.id
          /\ nodes[i].rent # lastOp.station.rent
          /\ i < Len(nodes)
          /\ edges[nodes[i].id] # <<>>

(***************************************************************************)
(* C4: on a graph whose edges were added with both endpoints present, and  *)
(* a source s of the graph, dijkstra returns a map on exactly the station  *)
(* ids with dist[s] = 0, the minimum path weight for every station of s's  *)
(* connected component and Infinity for every other station; the line      *)
(* X-3-Y-4-Z gives {X:0, Y:3, Z:7} from X and {X:7, Y:4, Z:0} from Z.      *)
(***************************************************************************)
C4_DijkstraMinimal ==
    (lastOp.op = "dijkstra" /\ has(graph, lastOp.startId) /\ Symmetric(graph)) =>
        LET s == lastOp.startId
            best == TrueDist(graph, s)
            reach == Component(graph, s)
        IN
        /\ ret.kind = "map"
        /\ DOMAIN ret.map = NodeIds(graph)
        /\ ret.map[s] = 0
        /\ \A v \in NodeIds(graph) :
              /\ ret.map[v] = best[v]
              /\ (ret.map[v] = Infinity) <=> (v \notin reach)
        /\ (LineXYZ /\ s = "X") => ret.map = [X |-> 0, Y |-> 3, Z |-> 7]
        /\ (LineXYZ /\ s = "Z") => ret.map = [X |-> 7, Y |-> 4, Z |-> 0]

C4_Witness ==
    /\ lastOp.op = "dijkstra"
    /\ lastOp.startId = "X"
    /\ Symmetric(graph)
    /\ Len(nodes) = 3
    /\ Occurrences(edges, "X", [to |-> "Z", weight |-> 3]) = 1
    /\ ret.map["Z"] = 2
    /\ ret.map["Y"] = 1

(***************************************************************************)
(* C5: for every stored edge (u, v, w) and every source the returned map   *)
(* satisfies dist[v] <= dist[u] + w and dist[u] <= dist[v] + w.  Read for  *)
(* the entries whose two ends are stations and for the sources that are    *)
(* stations.                                                               *)
(***************************************************************************)
Triangle(g, dist) ==
    \A u \in DOMAIN g.edges : \A i \in 1..Len(g.edges[u]) :
        LET v == g.edges[u][i].to
            w == g.edges[u][i].weight
        IN  (u \in DOMAIN dist /\ v \in DOMAIN dist) =>
               /\ dist[v] <= dist[u] + w
               /\ dist[u] <= dist[v] + w

C5_TriangleInequality ==
    (lastOp.op = "dijkstra" /\ has(graph, lastOp.startId)) => Triangle(graph, ret.map)

(***************************************************************************)
(* C6: dijkstra with a startId that is not a station of the graph fails    *)
(* with NotFound and returns no distance map.                              *)
(***************************************************************************)
C6_UnknownSourceFails ==
    (lastOp.op = "dijkstra" /\ ~has(graph, lastOp.startId)) => ret.kind = "error"

(***************************************************************************)
(* initializeGraph: addLine adds the stations of a line that are not yet   *)
(* in the graph, then the edges between consecutive stations (and the      *)
(* closing edge of a loop).  draws[i] is the weight 2 + floor(random * 3)  *)
(* drawn for the i-th edge of the line.                                    *)
(***************************************************************************)
Abs(x) == IF x < 0 THEN -x ELSE x
Max2(a, b) == IF a >= b THEN a ELSE b
Min2(a, b) == IF a <= b THEN a ELSE b

\* index is 0-based; |index - total / 2| * 3000 = |2 * index - total| * 1500
calculateDummyRent(index, total, isCenter) ==
    LET base == IF isCenter THEN 180000 ELSE 150000
        distanceDiscount == Abs(2 * index - total) * 1500
    IN  Max2(60000, base - distanceDiscount)

RECURSIVE addLineNodes(_, _, _, _)
addLineNodes(g, stations, isCenter, i) ==
    IF i > Len(stations) THEN g
    ELSE LET id == stations[i]
         IN  IF ~has(g, id)
             THEN addLineNodes(
                      addNode(g, [id |-> id,
                                  rent |-> calculateDummyRent(i - 1, Len(stations), isCenter)]),
                      stations, isCenter, i + 1)
             ELSE addLineNodes(g, stations, isCenter, i + 1)

RECURSIVE addLineEdges(_, _, _, _)
addLineEdges(g, stations, draws, i) ==
    IF i > Len(stations) - 1 THEN g
    ELSE LET g2 == addEdge(g, stations[i], stations[i + 1], draws[i])
         \* the comparison has the graph of this round computed before the next
         IN  IF g2 = g THEN addLineEdges(g, stations, draws, i + 1)
             ELSE addLineEdges(g2, stations, draws, i + 1)

addLine(g, stations, isLoop, isCenter, draws) ==
    LET g1 == addLineNodes(g, stations, isCenter, 1)
        g2 == addLineEdges(g1, stations, draws, 1)
    IN  IF isLoop
        THEN addEdge(g2, stations[Len(stations)], stations[1], draws[Len(stations)])
        ELSE g2

RECURSIVE addLines(_, _, _, _)
addLines(g, lines, draws, i) ==
    IF i > Len(lines) THEN g
    ELSE addLines(addLine(g, lines[i].stations, lines[i].isLoop, lines[i].isCenter, draws),
                  lines, draws, i + 1)

initializeGraph(lines, draws) == addLines(EmptyGraph, lines, draws, 1)

(***************************************************************************)
(* The networks of the model: a long line (open, or a loop of central      *)
(* stations), a long line crossed by a second line that shares two         *)
(* consecutive stations with it, and two lines with no station in common.  *)
(***************************************************************************)
Names == <<"S1", "S2", "S3", "S4", "S5", "S6", "S7", "S8", "S9", "S10", "S11",
           "S12", "S13", "S14">>

Long == SubSeq(Names, 1, LongLen)
Cross == <<"S1", "S2", "C1", "S5">>
Short == <<"S1", "S2", "S3">>
Branch == <<"S4", "S5">>
\* A line as long as the longer lines of the source, with one station before
\* S1 and thirty edges from S1 to S4.
Far == <<"F0", "S1", "F1", "F2", "F3", "F4", "F5", "F6", "F7", "F8", "F9",
        "F10", "F11", "F12", "F13", "F14", "F15", "F16", "F17", "F18", "F19",
        "F20", "F21", "F22", "F23", "F24", "F25", "F26", "F27", "F28", "F29",
        "S4">>

Line(stations, isLoop, isCenter) ==
    [stations |-> stations, isLoop |-> isLoop, isCenter |-> isCenter]

Networks ==
    { <<Line(Long, FALSE, FALSE)>>,
      <<Line(Long, TRUE, TRUE)>>,
      <<Line(Long, FALSE, FALSE), Line(Cross, FALSE, TRUE)>>,
      <<Line(Short, FALSE, TRUE), Line(Branch, FALSE, FALSE)>>,
      <<Line(Far, FALSE, FALSE)>> }

Draws == {[i \in 1..Len(Far) |-> 2 + ((k * i + 2) % 3)] : k \in {0, 1}}

\* What a caller may add after the lines: nothing, or an edge to a station
\* that is added only afterwards.
Extras == { [es |-> <<>>, ns |-> <<>>],
            [es |-> <<<<"S3", "Q", 3>>>>, ns |-> <<[id |-> "Q", rent |-> 135000]>>] }

(***************************************************************************)
(* calculateResults.  Scores are exact rationals, kept as integers in      *)
(* units of 1 / ScoreUnit: the weights wA and wB are multiples of 1/50,    *)
(* lambda (a slider of step 0.05) is lambda20 / 20, and 100 / 120 = 5 / 6. *)
(* The code computes them in double precision; its rounding is not         *)
(* modelled.                                                               *)
(***************************************************************************)
ScoreUnit == 50 * 20 * 6

weightA50(ratio) ==
    IF ratio < 50 THEN 50 + 2 * (50 - ratio)
    ELSE IF ratio > 50 THEN Max2(25, 50 - (ratio - 50))
    ELSE 50

weightB50(ratio) ==
    IF ratio < 50 THEN Max2(25, 50 - (50 - ratio))
    ELSE IF ratio > 50 THEN 50 + 2 * (ratio - 50)
    ELSE 50

\* lambda * scoreFair + (1 - lambda) * scoreSum, in units of 1/1000
weightedTimeScore(p, timeA, timeB) ==
    LET scoreSum == weightA50(p.ratio) * timeA + weightB50(p.ratio) * timeB
        scoreFair == Max2(weightA50(p.ratio) * timeA, weightB50(p.ratio) * timeB)
    IN  p.lambda20 * scoreFair + (20 - p.lambda20) * scoreSum

\* 100 - (weightedTimeScore / 120) * 100, less 15 when the rent exceeds the budget
displayScore(p, station, timeA, timeB) ==
    LET d == 100 * ScoreUnit - 5 * weightedTimeScore(p, timeA, timeB)
    IN  IF station.rent > p.budget THEN d - 15 * ScoreUnit ELSE d

clampAbove(d) == Min2(100 * ScoreUnit, d)

clampScore(d) == Max2(0, Min2(100 * ScoreUnit, d))

penaltyAfterClamp(p, station, timeA, timeB) ==
    LET d == clampScore(100 * ScoreUnit - 5 * weightedTimeScore(p, timeA, timeB))
    IN  IF station.rent > p.budget THEN d - 15 * ScoreUnit ELSE d

stationScore(p, station, timeA, timeB) ==
    clampScore(displayScore(p, station, timeA, timeB))

generateMockAIReasons(timeA, timeB) ==
    IF Abs(timeA - timeB) <= 5 THEN "balanced"
    ELSE IF timeA < timeB THEN "A" ELSE "B"

isExcludedByA(timeA, timeB) == timeA = Infinity

isExcluded(timeA, timeB) == timeA = Infinity \/ timeB = Infinity

RECURSIVE scoreStations(_, _, _, _, _)
scoreStations(stations, distA, distB, p, i) ==
    IF i > Len(stations) THEN <<>>
    ELSE LET station == stations[i]
             timeA == distA[station.id]
             timeB == distB[station.id]
             rest == scoreStations(stations, distA, distB, p, i + 1)
         IN  IF isExcluded(timeA, timeB) THEN rest
             ELSE <<[id |-> station.id, rent |-> station.rent,
                     timeA |-> timeA, timeB |-> timeB,
                     score |-> stationScore(p, station, timeA, timeB),
                     aiReason |-> generateMockAIReasons(timeA, timeB)]>> \o rest

\* Array.prototype.sort is stable: an element goes behind those that compare equal.
goesBeforeOrTies(a, b) == b.score - a.score <= 0

goesBeforeAscending(a, b) == a.score - b.score < 0

goesBefore(a, b) == b.score - a.score < 0

RECURSIVE insertSorted(_, _)
insertSorted(sorted, x) ==
    IF sorted = <<>> THEN <<x>>
    ELSE IF goesBefore(x, Head(sorted)) THEN <<x>> \o sorted
    ELSE <<Head(sorted)>> \o insertSorted(Tail(sorted), x)

RECURSIVE sortByScore(_, _)
sortByScore(xs, n) ==
    IF n = 0 THEN <<>> ELSE insertSorted(sortByScore(xs, n - 1), xs[n])

slice10(xs) == SubSeq(xs, 1, Min2(TopN, Len(xs)))

calculateResults(g, stations, p) ==
    LET distA == dijkstra(g, p.workplaceA)
        distB == dijkstra(g, p.workplaceB)
        scoredStations == scoreStations(stations, distA, distB, p, 1)
    IN  slice10(sortByScore(scoredStations, Len(scoredStations)))

(***************************************************************************)
(* The search screen.  The graph is built once, when the component mounts; *)
(* the form (and its button) is rendered only in step INPUT.  The three    *)
(* sliders (budget, ratio, lambda) are set before a behaviour starts; the  *)
(* workplace fields are edited during it.                                  *)
(***************************************************************************)
WorkIds == {"", "S1", "S4", "Q"}
Budgets == {135000, 300000}
Ratios == {0, 40, 50, 80}
Lambdas20 == {0, 10, 20}

InitSearch ==
    /\ \E lines \in Networks, draws \in Draws, x \in Extras :
          LET g == withNodes(withEdges(initializeGraph(lines, draws), x.es, 1), x.ns, 1)
          IN  nodes = g.nodes /\ edges = g.edges
    /\ lastOp = NoOp
    /\ ret = [kind |-> "none", map |-> NoMap]
    /\ \E budget \in Budgets, ratio \in Ratios, lambda20 \in Lambdas20 :
          params = [InitParams EXCEPT !.budget = budget, !.ratio = ratio,
                                      !.lambda20 = lambda20]
    /\ step = "INPUT"
    /\ timers = 0
    /\ results = <<>>
    /\ alertMsg = "none"
    /\ runs = NoRuns

SetWorkplaceA(val) ==
    /\ step = "INPUT"
    /\ params' = [params EXCEPT !.workplaceA = val]
    /\ UNCHANGED <<graphVars, apiVars, runs, step, timers, results, alertMsg>>

SetWorkplaceB(val) ==
    /\ step = "INPUT"
    /\ params' = [params EXCEPT !.workplaceB = val]
    /\ UNCHANGED <<graphVars, apiVars, runs, step, timers, results, alertMsg>>

handleSearchEmptyOnly ==
    /\ step = "INPUT"
    /\ IF params.workplaceA = "" \/ params.workplaceB = ""
       THEN /\ alertMsg' = "empty"
            /\ UNCHANGED <<step, timers>>
       ELSE /\ alertMsg' = "none"
            /\ step' = "LOADING"
            /\ timers' = timers + 1
    /\ UNCHANGED <<graphVars, apiVars, runs, params, results>>

handleSearch ==
    /\ step = "INPUT"
    /\ IF params.workplaceA = "" \/ params.workplaceB = ""
       THEN /\ alertMsg' = "empty"
            /\ UNCHANGED <<step, timers>>
       ELSE IF ~has(graph, params.workplaceA) \/ ~has(graph, params.workplaceB)
       THEN /\ alertMsg' = "notfound"
            /\ UNCHANGED <<step, timers>>
       ELSE /\ alertMsg' = "none"
            /\ step' = "LOADING"
            /\ timers' = timers + 1
    /\ UNCHANGED <<graphVars, apiVars, runs, params, results>>

\* The callback of setTimeout: calculateResults(); setStep(RESULTS).
TimerFires ==
    /\ timers > 0
    /\ timers' = timers - 1
    /\ results' = calculateResults(graph, getAllStations(graph), params)
    /\ step' = "RESULTS"
    /\ UNCHANGED <<graphVars, apiVars, runs, params, alertMsg>>

\* The header's button, rendered in step RESULTS: setStep(INPUT).
ChangeConditions ==
    /\ step = "RESULTS"
    /\ step' = "INPUT"
    /\ UNCHANGED <<graphVars, apiVars, runs, params, timers, results, alertMsg>>

NextSearch ==
    \/ \E val \in WorkIds : SetWorkplaceA(val)
    \/ \E val \in WorkIds : SetWorkplaceB(val)
    \/ handleSearch
    \/ TimerFires
    \/ ChangeConditions

SpecSearch == InitSearch /\ [][NextSearch]_vars

(***************************************************************************)
(* The ranking claims are read in step RESULTS, where results is the list  *)
(* computed from the parameters still on display.                          *)
(***************************************************************************)
RefA == TrueDist(graph, params.workplaceA)
RefB == TrueDist(graph, params.workplaceB)

BothFinite(refA, refB) ==
    {i \in 1..Len(nodes) : refA[nodes[i].id] < Infinity /\ refB[nodes[i].id] < Infinity}

\* 100 - (blended / 120) * 100 for commute times timeA and timeB
Unpenalized(timeA, timeB) == 100 * ScoreUnit - 5 * weightedTimeScore(params, timeA, timeB)

Clamped(x) == IF x < 0 THEN 0 ELSE IF x > 100 * ScoreUnit THEN 100 * ScoreUnit ELSE x

(***************************************************************************)
(* C7: a station is in the result list only if its distances from          *)
(* workplaceA and from workplaceB are both finite; when no station is      *)
(* reachable from both, the result is the empty list and no error is       *)
(* raised.                                                                 *)
(***************************************************************************)
ReachableOnly(refA, refB) ==
    /\ \A k \in 1..Len(results) :
          /\ has(graph, results[k].id)
          /\ refA[results[k].id] < Infinity
          /\ refB[results[k].id] < Infinity
    /\ BothFinite(refA, refB) = {} => (results = <<>> /\ alertMsg = "none")

C7_OnlyReachableFromBoth == step = "RESULTS" => ReachableOnly(RefA, RefB)

C7_Witness ==
    /\ step = "RESULTS"
    /\ results # <<>>
    /\ \E i \in 1..Len(nodes) :
          /\ has(graph, params.workplaceA)
          /\ nodes[i].id \in Component(graph, params.workplaceA)
          /\ nodes[i].id \notin Component(graph, params.workplaceB)

(***************************************************************************)
(* C8: a returned station with rent > budget has, before clamping, exactly *)
(* 15 less than 100 - (blended / 120) * 100; a station with rent <= budget *)
(* has no penalty.                                                         *)
(***************************************************************************)
C8_BudgetPenalty ==
    step = "RESULTS" =>
        \A k \in 1..Len(results) :
            LET r == results[k]
                u == Unpenalized(r.timeA, r.timeB)
            IN  /\ r.rent > params.budget => r.score = Clamped(u - 15 * ScoreUnit)
                /\ r.rent <= params.budget => r.score = Clamped(u)

C8_Witness ==
    /\ step = "RESULTS"
    /\ \E k \in 1..Len(results) :
          /\ results[k].rent > params.budget
          /\ Unpenalized(results[k].timeA, results[k].timeB) > 0
          /\ Unpenalized(results[k].timeA, results[k].timeB) < 15 * ScoreUnit
          /\ results[k].score = 0

(***************************************************************************)
(* C9: every entry of the result list has a score in [0, 100]; raw scores  *)
(* below 0 are returned as exactly 0.                                      *)
(***************************************************************************)
C9_ScoreInRange ==
    step = "RESULTS" =>
        \A k \in 1..Len(results) :
            LET r == results[k]
                raw == Unpenalized(r.timeA, r.timeB)
                         - (IF r.rent > params.budget THEN 15 * ScoreUnit ELSE 0)
            IN  /\ r.score >= 0
                /\ r.score <= 100 * ScoreUnit
                /\ raw < 0 => r.score = 0

C9_Witness ==
    /\ step = "RESULTS"
    /\ \E k \in 1..Len(results) :
          /\ results[k].rent <= params.budget
          /\ Unpenalized(results[k].timeA, results[k].timeB) < 0
          /\ results[k].score = 0

(***************************************************************************)
(* C10: the result list is the first min(10, number of qualifying          *)
(* stations) entries of the qualifying stations in descending score, equal *)
(* scores in listing order; no station left out has a strictly higher      *)
(* score than a returned one.                                              *)
(***************************************************************************)
\* The score of every station, by listing index; -1 for a station that is not
\* reachable from both workplaces.
ScoreTable(refA, refB) ==
    [i \in 1..Len(nodes) |->
        IF i \in BothFinite(refA, refB)
        THEN stationScore(params, nodes[i], refA[nodes[i].id], refB[nodes[i].id])
        ELSE -1] @@ NoMap

\* Station i ranks before station j.
RanksBefore(sc, i, j) == sc[i] > sc[j] \/ (sc[i] = sc[j] /\ i < j)

RankedTopTen(sc) ==
    LET Q == {i \in 1..Len(nodes) : sc[i] >= 0} IN
    /\ Len(results) = Min2(10, Cardinality(Q))
    /\ \A k \in 1..Len(results) :
          /\ has(graph, results[k].id)
          /\ IndexOf(graph, results[k].id) \in Q
          /\ results[k].score = sc[IndexOf(graph, results[k].id)]
          \* exactly k - 1 qualifying stations rank before the k-th entry
          /\ Cardinality({j \in Q : RanksBefore(sc, j, IndexOf(graph, results[k].id))})
               = k - 1
    /\ \A j \in Q :
          (\A k \in 1..Len(results) : results[k].id # nodes[j].id) =>
              \A k \in 1..Len(results) : sc[j] <= results[k].score

C10_TopTenStable == step = "RESULTS" => RankedTopTen(ScoreTable(RefA, RefB))

C10_Witness ==
    /\ step = "RESULTS"
    /\ Len(nodes) > 10
    /\ Symmetric(graph)
    /\ Len(results) = 10
    /\ \E k \in 1..9 :
          /\ results[k].score = results[k + 1].score
          /\ results[k].score > 0

(***************************************************************************)
(* C11: a query whose workplaceA or workplaceB is empty or is no station   *)
(* id of the graph is rejected before any computation: handleSearch        *)
(* reports the error, schedules no timer, runs neither dijkstra nor the    *)
(* ranking, and leaves the step (INPUT) and the stored results unchanged.  *)
(***************************************************************************)
InvalidQuery ==
    \/ params.workplaceA = ""
    \/ params.workplaceB = ""
    \/ \A i \in 1..Len(nodes) : nodes[i].id # params.workplaceA
    \/ \A i \in 1..Len(nodes) : nodes[i].id # params.workplaceB

C11_InvalidQueryRejected ==
    [][(step = "INPUT" /\ InvalidQuery) =>
         /\ step' = "INPUT"
         /\ timers' = timers
         /\ results' = results
         /\ ret' = ret
         /\ handleSearch => alertMsg' \in {"empty", "notfound"}]_vars

C11_Witness ==
    /\ step = "INPUT"
    /\ InvalidQuery
    /\ params.workplaceA # ""
    /\ params.workplaceB # ""
    /\ alertMsg = "notfound"
    /\ results # <<>>
    /\ timers = 0

(***************************************************************************)
(* C12: with ratio = 50, lambda = 0 and a budget that covers every         *)
(* station, of two qualifying stations the one with the smaller            *)
(* timeA + timeB ranks strictly above the other: where the other is in the *)
(* result list, so is the first, at an earlier place.                      *)
(***************************************************************************)
EvenQuery ==
    /\ step = "RESULTS"
    /\ params.ratio = 50
    /\ params.lambda20 = 0
    /\ \A i \in 1..Len(nodes) : nodes[i].rent <= params.budget

\* timeA + timeB of every station, by listing index; -1 for a station that is
\* not reachable from both workplaces.
SumTable(refA, refB) ==
    [i \in 1..Len(nodes) |->
        IF i \in BothFinite(refA, refB)
        THEN refA[nodes[i].id] + refB[nodes[i].id]
        ELSE -1] @@ NoMap

\* The place of station i in the result list; 0 when it is not in the list.
Place(i) ==
    IF \E k \in 1..Len(results) : results[k].id = nodes[i].id
    THEN CHOOSE k \in 1..Len(results) : results[k].id = nodes[i].id
    ELSE 0

StrictlyAbove(i, j) == Place(j) # 0 => (Place(i) # 0 /\ Place(i) < Place(j))

\* Smaller sums rank strictly above larger ones, for the smaller sums below limit.
SmallerSumFirst(sum, limit) ==
    \A i, j \in 1..Len(nodes) :
        (sum[i] >= 0 /\ sum[i] < sum[j] /\ sum[i] < limit) => StrictlyAbove(i, j)

\* The statement as the specification has it: for every pair of sums.
C12_SmallerSumRanksAbove == EvenQuery => SmallerSumFirst(SumTable(RefA, RefB), Infinity)

\* C12, amended: the station with the smaller timeA + timeB ranks strictly
\* above the other provided that smaller sum is below 120 minutes, the sum at
\* which the score reaches its floor of 0.
C12_SmallerSumRanksAboveBelow120 == EvenQuery => SmallerSumFirst(SumTable(RefA, RefB), 120)

C12_Witness ==
    /\ EvenQuery
    /\ \E k \in 1..Len(results) : \E l \in 1..Len(results) :
          /\ k < l
          /\ results[k].timeA + results[k].timeB = 10
          /\ results[l].timeA + results[l].timeB > 20
          /\ results[k].score > results[l].score

(***************************************************************************)
(* C13: the distance map dijkstra returns does not depend on how ties are  *)
(* resolved: whichever unvisited station of minimal finite distance each   *)
(* round selects, and in whichever order the stations are listed, the      *)
(* final map is the one returned.                                          *)
(***************************************************************************)
\* The unvisited stations of minimal tentative distance.
Candidates(st) ==
    {id \in st.unvisited :
        /\ st.distances[id] < Infinity
        /\ \A o \in st.unvisited : st.distances[id] <= st.distances[o]}

\* The final maps over every resolution of every tie.
RECURSIVE Outcomes(_, _)
Outcomes(g, st) ==
    IF dijkstraDone(g, st) THEN {st.distances}
    ELSE UNION {Outcomes(g, visit(g, st, c)) : c \in Candidates(st)}

\* The graph of the state with its stations listed in every other order.
Relistings ==
    {[nodes |-> [i \in 1..Len(nodes) |-> nodes[o[i]]], edges |-> edges] :
        o \in {f \in [1..Len(nodes) -> 1..Len(nodes)] :
                 \A i, j \in 1..Len(nodes) : i # j => f[i] # f[j]}}

C13_TieIndependent ==
    lastOp.op = "dijkstra" =>
        /\ Outcomes(graph, dijkstraInit(graph, lastOp.startId)) = {ret.map}
        /\ \A g \in Relistings : dijkstra(g, lastOp.startId) = ret.map

C13_Witness ==
    /\ lastOp.op = "dijkstra"
    /\ lastOp.startId = "X"
    /\ Len(nodes) = 3
    /\ Occurrences(edges, "Y", [to |-> "Z", weight |-> 3]) = 1
    /\ Candidates(dijkstraStep(graph, dijkstraInit(graph, "X"))) = {"Y", "Z"}
    /\ ret.map["Y"] = 1
    /\ ret.map["Z"] = 1

(***************************************************************************)
(* The two dijkstra calls of calculateResults, one round of the while loop *)
(* at a time.  distances and unvisited are locals of each call; the graph  *)
(* is the argument both calls read.  The code runs the call for workplaceA *)
(* to its end and then the call for workplaceB; the rounds are interleaved *)
(* here in every order, which has that order among the others.  A call     *)
(* that is entered runs on until it returns.                               *)
(***************************************************************************)
RunGraphs ==
    {withEdges(withNodes(EmptyGraph, [i \in 1..Len(o) |-> [id |-> o[i], rent |-> 100000]], 1),
               es, 1) :
        o \in {q \in NodeOrders : Len(q) = Cardinality(StationIds)},
        es \in {<<>>, <<<<"X", "Y", 1>>>>, <<<<"X", "Y", 1>>, <<"X", "Z", 1>>>>,
                <<<<"X", "Y", 1>>, <<"Y", "Z", 1>>, <<"X", "Z", 4>>>>,
                <<<<"X", "Y", 3>>, <<"Y", "Z", 3>>, <<"X", "Z", 4>>>>,
                <<<<"Y", "Z", 4>>>>}}

InitRun ==
    /\ \E g \in RunGraphs : nodes = g.nodes /\ edges = g.edges
    /\ lastOp = NoOp
    /\ ret = [kind |-> "none", map |-> NoMap]
    /\ \E a \in StationIds, b \in StationIds :
          params = [InitParams EXCEPT !.workplaceA = a, !.workplaceB = b]
    /\ step = "LOADING"
    /\ timers = 0
    /\ results = <<>>
    /\ alertMsg = "none"
    /\ runs = NoRuns

source(r) == IF r = "A" THEN params.workplaceA ELSE params.workplaceB

loopState(r) == [distances |-> runs[r].distances, unvisited |-> runs[r].unvisited]

RunStart(r) ==
    /\ runs[r].pc = "idle"
    /\ LET st == dijkstraInit(graph, source(r))
       IN  runs' = [runs EXCEPT ![r] = [pc |-> "loop", startId |-> source(r),
                                        distances |-> st.distances,
                                        unvisited |-> st.unvisited]]
    /\ UNCHANGED <<graphVars, apiVars, params, step, timers, results, alertMsg>>

\* A round with one unvisited set for both calls.
RunIterateShared(r) ==
    /\ runs[r].pc = "loop"
    /\ IF dijkstraDone(graph, loopState(r))
       THEN runs' = [runs EXCEPT ![r].pc = "done"]
       ELSE LET st == dijkstraStep(graph, loopState(r))
            IN  runs' = [q \in {"A", "B"} |->
                           IF q = r
                           THEN [runs[q] EXCEPT !.distances = st.distances,
                                                !.unvisited = st.unvisited]
                           ELSE [runs[q] EXCEPT !.unvisited = @ \cap st.unvisited]]
    /\ UNCHANGED <<graphVars, apiVars, params, step, timers, results, alertMsg>>

RunIterate(r) ==
    /\ runs[r].pc = "loop"
    /\ IF dijkstraDone(graph, loopState(r))
       THEN runs' = [runs EXCEPT ![r].pc = "done"]
       ELSE LET st == dijkstraStep(graph, loopState(r))
            IN  runs' = [runs EXCEPT ![r].distances = st.distances,
                                     ![r].unvisited = st.unvisited]
    /\ UNCHANGED <<graphVars, apiVars, params, step, timers, results, alertMsg>>

NextRun == \E r \in {"A", "B"} : RunStart(r) \/ RunIterate(r)

SpecRun == InitRun /\ [][NextRun]_vars /\ WF_vars(NextRun)

(***************************************************************************)
(* C14: dijkstra terminates.  Every round of the loop either removes       *)
(* exactly one station from the unvisited set or exits; it exits exactly   *)
(* when the unvisited set is empty or no unvisited station has a finite    *)
(* tentative distance; the stations unvisited at the exit have distance    *)
(* Infinity in the map returned; and every call entered returns.           *)
(***************************************************************************)
NothingToVisit(run) ==
    \/ run.unvisited = {}
    \/ \A id \in run.unvisited : run.distances[id] = Infinity

RemovesOne(run, next) ==
    /\ next.pc = "loop"
    /\ next.unvisited \subseteq run.unvisited
    /\ Cardinality(run.unvisited \ next.unvisited) = 1
    /\ DOMAIN next.distances = DOMAIN run.distances

Exits(run, next) == next = [run EXCEPT !.pc = "done"]

RoundOrExit ==
    \A r \in {"A", "B"} :
        (runs[r].pc = "loop" /\ runs'[r] # runs[r]) =>
            IF NothingToVisit(runs[r])
            THEN Exits(runs[r], runs'[r])
            ELSE RemovesOne(runs[r], runs'[r])

UnvisitedStayInfinite ==
    \A r \in {"A", "B"} :
        runs[r].pc = "done" =>
            /\ NothingToVisit(runs[r])
            /\ \A id \in runs[r].unvisited : runs[r].distances[id] = Infinity

C14_Terminates ==
    /\ [][RoundOrExit]_vars
    /\ []UnvisitedStayInfinite
    /\ \A r \in {"A", "B"} : [](runs[r].pc = "loop" => <>(runs[r].pc = "done"))
    /\ <>(\A r \in {"A", "B"} : runs[r].pc = "done")

C14_Witness ==
    /\ runs["A"].pc = "done"
    /\ runs["A"].unvisited = {"X"}
    /\ runs["A"].distances["X"] = Infinity
    /\ runs["A"].distances["Z"] = 4
    /\ runs["B"].pc = "done"
    /\ runs["B"].unvisited = {"Y", "Z"}

(***************************************************************************)
(* C15: the two dijkstra calls of a query never change the graph and share *)
(* no state: a round of one call leaves the other call as it was, and in   *)
(* whatever order their rounds are taken each call returns the map it      *)
(* returns when run alone.                                                 *)
(***************************************************************************)
GraphUntouched == nodes' = nodes /\ edges' = edges

OneCallPerStep == \E r \in {"A", "B"} : runs' = [runs EXCEPT ![r] = runs'[r]]

SameAsAlone ==
    \A r \in {"A", "B"} :
        runs[r].pc = "done" => runs[r].distances = dijkstra(graph, source(r))

C15_RunsIndependent ==
    /\ [][GraphUntouched /\ OneCallPerStep]_vars
    /\ []SameAsAlone

\* Both calls are in the middle of their loops, on different sources.
C15_Witness ==
    /\ source("A") # source("B")
    /\ runs["A"].pc = "loop"
    /\ runs["B"].pc = "loop"
    /\ Cardinality(runs["A"].unvisited) = 1
    /\ Cardinality(runs["B"].unvisited) = 2
    /\ ~NothingToVisit(runs["A"])
    /\ ~NothingToVisit(runs["B"])
    /\ runs["A"].unvisited \cap runs["B"].unvisited = {}

====
